---- MODULE Spec2Model ----
(***************************************************************************)
(* A model of src/cruncher.py: the Cruncher class, an iterative            *)
(* grid-narrowing optimizer.                                               *)
(*                                                                         *)
(* Numbers.  Python floats are modelled as exact rationals in fixed point: *)
(* every number of a search is an integer count of 1/Unit, where           *)
(* Unit = (points_per_split-1)^(iterations+1).  crunch divides a range by  *)
(* points_per_split-1 once per generation call and makes iterations+1      *)
(* generation calls, and the declared endpoints are whole numbers, so no   *)
(* division of the model truncates (DivisionsAreExact).  Scores are counts *)
(* of 1/Unit^2.  IEEE rounding error is not modelled.                      *)
(*                                                                         *)
(* A dict is a sequence in insertion order; a key is its position.         *)
(***************************************************************************)
EXTENDS Integers, Sequences, FiniteSets, TLC

VARIABLES
    variables,                 \* self.variables: the declared search space
    function,                  \* self.function: the evaluation function
    points_per_split,          \* self.points_per_split
    iterations,                \* self.iterations
    goal,                      \* self.goal
    check_all_ints,            \* self.check_all_ints
    types,                     \* self.types, <<>> before construction
    global_increment_storage,  \* self.global_increment_storage
    pc,                        \* position in __init__ / crunch / estimate_crunch_time
    var_range,                 \* crunch: the ranges handed to the last generation call
    option_dic,                \* _generate_test_points: candidate list per key
    points,                    \* crunch: the batch to evaluate
    best_val_var_pair,         \* crunch: (ret, vars), <<>> before the first selection
    x,                         \* crunch: the loop counter
    returned,                  \* what crunch returned, <<>> while running
    estimate,                  \* estimate_crunch_time: seconds handed to the formatter
    calls,                     \* history: arguments of self.function, in call order, last selection
    seen,                      \* history: every score evaluated since crunch started
    work                       \* history: <<#selections, #narrowings, #generations>>

vars == <<variables, function, points_per_split, iterations, goal, check_all_ints,
          types, global_increment_storage, pc, var_range, option_dic, points,
          best_val_var_pair, x, returned, estimate, calls, seen, work>>

config == <<variables, function, points_per_split, iterations, goal, check_all_ints>>

search == <<var_range, option_dic, points, best_val_var_pair, x, returned,
            calls, seen, work, global_increment_storage>>

----------------------------------------------------------------------------
(* Bounds of the model *)

MaxPointsPerSplit == 5
MaxIterations == 3
MaxVars == 4
MaxBatch == 4
MaxUnitCost == 2

----------------------------------------------------------------------------
(* Numbers *)

RECURSIVE Pow(_, _)
Pow(b, e) == IF e = 0 THEN 1 ELSE b * Pow(b, e - 1)

Unit == Pow(points_per_split - 1, iterations + 1)

Abs(v) == IF v < 0 THEN -v ELSE v

Range(s) == {s[i] : i \in DOMAIN s}

\* Python 3 round(): to the nearest integer, a tie to the even one.
PyRound(v) ==
    LET q == v \div Unit
        r == v % Unit
    IN  IF 2 * r < Unit THEN q * Unit
        ELSE IF 2 * r > Unit THEN (q + 1) * Unit
        ELSE IF q % 2 = 0 THEN q * Unit ELSE (q + 1) * Unit

----------------------------------------------------------------------------
(* Declarations: a Python value with its type.  shape is the type of the   *)
(* declaration itself ("scalar" is a bare value whose type is elems[1].ty) *)
(* A declared bool is held as the integer it is in Python: True 1, False 0 *)

Val(ty, v) == [ty |-> ty, v |-> v]

FloatDecl(lo, hi) == [shape |-> "list", elems |-> <<Val("float", lo), Val("float", hi)>>]
IntDecl(lo, hi) == [shape |-> "tuple", elems |-> <<Val("int", lo), Val("int", hi)>>]
BoolDecl == [shape |-> "tuple", elems |-> <<Val("bool", 1), Val("bool", 0)>>]
ConstDecl(v) == [shape |-> "scalar", elems |-> <<Val("int", v)>>]

validate_list(some_list) ==
    IF \/ Len(some_list) # 2
       \/ some_list[1].ty \notin {"float", "int"}
       \/ some_list[2].ty \notin {"float", "int"}
    THEN FALSE ELSE TRUE

validate_tuple(some_tuple) ==
    IF Len(some_tuple) # 2 THEN FALSE
    ELSE IF some_tuple[1].ty # some_tuple[2].ty THEN FALSE
    ELSE IF some_tuple[1].ty \notin {"bool", "int"} THEN FALSE
    ELSE TRUE

validate_single(value_to_check) ==
    IF value_to_check.shape = "scalar" /\ value_to_check.elems[1].ty \in {"int", "float"}
    THEN TRUE
    ELSE IF value_to_check.shape = "list" THEN validate_list(value_to_check.elems)
    ELSE IF value_to_check.shape = "tuple" THEN validate_tuple(value_to_check.elems)
    ELSE FALSE

\* TRUE when _validate_variables returns, FALSE when it raises.
validate_variables ==
    /\ variables # <<>>
    /\ \A key \in DOMAIN variables : validate_single(variables[key])

determine_variable_type(value_to_check) ==
    IF value_to_check.shape = "scalar" /\ value_to_check.elems[1].ty \in {"float", "int"}
    THEN "constant"
    ELSE IF value_to_check.shape = "list" THEN "float"
    ELSE IF value_to_check.shape = "tuple"
    THEN IF value_to_check.elems[1].ty = "int" THEN "int" ELSE "bool"
    ELSE "None"

sort_keys == [key \in DOMAIN variables |-> determine_variable_type(variables[key])]

\* Cruncher.__init__
Construct ==
    /\ pc = "new"
    /\ IF points_per_split < 3 \/ iterations < 1 \/ ~validate_variables
       THEN /\ pc' = "raised"
            /\ UNCHANGED types
       ELSE /\ pc' = "constructed"
            /\ types' = sort_keys
    /\ UNCHANGED <<config, search, estimate>>

----------------------------------------------------------------------------
(* The evaluation function: an opaque callable in the code.  The model     *)
(* draws it from a family: a peak -(X-p)^2 and a slope X over the sum X of  *)
(* the numeric values of an assignment (True is 1, False is 0), and a      *)
(* table of scores over a single integer variable.                         *)

NumberOf(key, v) == IF types[key] = "bool" THEN (IF v THEN Unit ELSE 0) ELSE v

RECURSIVE SumOf(_, _)
SumOf(var_set, n) ==
    IF n = 0 THEN 0 ELSE SumOf(var_set, n - 1) + NumberOf(n, var_set[n])

Apply(var_set) ==
    LET X == SumOf(var_set, Len(var_set))
    IN  CASE function.kind = "quad" -> 0 - (X - function.p * Unit) * (X - function.p * Unit)
          [] function.kind = "lin" -> X * Unit
          [] function.kind = "table" -> function.tab[var_set[1] \div Unit] * Unit * Unit

\* float(self.goal)
float_of_goal == goal.t * Unit * Unit

----------------------------------------------------------------------------
(* Point-set generation *)

\* self.variables[key][i] (i = 1, 2 here for Python's 0, 1)
Declared(key, i) == variables[key].elems[i].v * Unit

\* self.variables as the ranges crunch hands to the first generation call
DeclaredRanges ==
    [key \in DOMAIN variables |->
        IF types[key] = "constant" THEN variables[key].elems[1].v * Unit
        ELSE IF types[key] = "bool"
        THEN <<variables[key].elems[1].v = 1, variables[key].elems[2].v = 1>>
        ELSE <<Declared(key, 1), Declared(key, 2)>>]

\* range(t[0], t[1]): the high end left out
get_every_int_in_tuple_Exclusive(t) ==
    [i \in 1 .. (IF t[2] < t[1] THEN 0 ELSE (t[2] - t[1]) \div Unit) |->
        t[1] + (i - 1) * Unit]

get_every_int_in_tuple(t) ==
    [i \in 1 .. (IF t[2] < t[1] THEN 0 ELSE (t[2] - t[1]) \div Unit + 1) |->
        t[1] + (i - 1) * Unit]

\* diff/(self.points_per_split - 1)
Increment(diff) == diff \div (points_per_split - 1)

RECURSIVE float_loop(_, _, _)
float_loop(pts, increment, n) ==
    IF n = 0 THEN pts
    ELSE float_loop(Append(pts, pts[Len(pts)] + increment), increment, n - 1)

split_float_list_and_get_increment(l) ==
    LET diff == l[2] - l[1]
        increment == Increment(diff)
    IN  [points |-> Append(float_loop(<<l[1]>>, increment, points_per_split - 2), l[2]),
         increment |-> increment]

RECURSIVE int_loop(_, _, _, _, _)
int_loop(pts, last_float, increment, t, n) ==
    IF n = 0 THEN pts
    ELSE LET next_float == last_float + increment
             c == PyRound(next_float)
         IN  int_loop(IF c \notin Range(pts) /\ c # t[2] THEN Append(pts, c) ELSE pts,
                      next_float, increment, t, n - 1)

split_int_tuple_and_get_increment(t) ==
    LET diff == t[2] - t[1]
        increment == Increment(diff)
    IN  [points |-> Append(int_loop(<<t[1]>>, t[1], increment, t, points_per_split - 2), t[2]),
         increment |-> increment]

\* one key of the first loop of _generate_test_points: candidates and increment
Options(key, some_variable_dic_of_ranges) ==
    CASE types[key] = "constant" ->
            [points |-> <<some_variable_dic_of_ranges[key]>>, increment |-> 0]
      [] types[key] = "float" ->
            split_float_list_and_get_increment(some_variable_dic_of_ranges[key])
      [] types[key] = "int" ->
            IF check_all_ints
            THEN [points |-> get_every_int_in_tuple(some_variable_dic_of_ranges[key]),
                  increment |-> 0]
            ELSE split_int_tuple_and_get_increment(some_variable_dic_of_ranges[key])
      [] types[key] = "bool" ->
            [points |-> <<TRUE, FALSE>>, increment |-> 0]

\* list(product(*arrs)): the last list varies fastest
RECURSIVE product(_)
product(arrs) ==
    IF arrs = <<>> THEN << <<>> >>
    ELSE LET rest == product(Tail(arrs))
             first == Head(arrs)
             m == Len(rest)
         IN  [i \in 1 .. Len(first) * m |->
                <<first[((i - 1) \div m) + 1]>> \o rest[((i - 1) % m) + 1]]

\* _generate_test_points: the candidate lists, the increments, the batch
generate_test_points(some_variable_dic_of_ranges) ==
    LET opt == [key \in DOMAIN variables |-> Options(key, some_variable_dic_of_ranges)]
    IN  [option_dic |-> [key \in DOMAIN variables |-> opt[key].points],
         increments |-> [key \in DOMAIN variables |-> opt[key].increment],
         variable_list |-> product([key \in DOMAIN variables |-> opt[key].points])]

----------------------------------------------------------------------------
(* Selection *)

closeness(g, value) == Abs(g - value)

\* a selector with the comparisons turned round
Better_Reversed(val, best_val) ==
    IF goal.kind = "max" THEN val < best_val
    ELSE IF goal.kind = "min" THEN val > best_val
    ELSE closeness(float_of_goal, val) > closeness(float_of_goal, best_val)

\* a selector that lets an equal score replace the incumbent
Better_OrEqual(val, best_val) ==
    IF goal.kind = "max" THEN val >= best_val
    ELSE IF goal.kind = "min" THEN val <= best_val
    ELSE closeness(float_of_goal, val) <= closeness(float_of_goal, best_val)

\* the test that makes a later point replace the incumbent
Better(val, best_val) ==
    IF goal.kind = "max" THEN val > best_val
    ELSE IF goal.kind = "min" THEN val < best_val
    ELSE closeness(float_of_goal, val) < closeness(float_of_goal, best_val)

\* the loop of _find_ideal_choice; called holds the assignments evaluated so far,
\* so the next var_set is the one after them
RECURSIVE find_loop(_, _, _)
find_loop(list, best, called) ==
    IF Len(called) = Len(list) THEN [best |-> best, calls |-> called]
    ELSE LET var_set == list[Len(called) + 1]
             val == Apply(var_set)
         IN  IF best = <<>>
             THEN find_loop(list, <<val, var_set>>, Append(called, var_set))
             ELSE IF Better(val, best[1])
             THEN find_loop(list, <<val, var_set>>, Append(called, var_set))
             ELSE find_loop(list, best, Append(called, var_set))

find_ideal_choice(list_of_dictionary_variables) ==
    find_loop(list_of_dictionary_variables, <<>>, <<>>)

----------------------------------------------------------------------------
(* Narrowing *)

\* a narrower that forgets the lower clamp
ClampStart_Unclamped(start, key) == start

\* "don't break given range no matter what"
ClampStart(start, key) == IF start < Declared(key, 1) THEN Declared(key, 1) ELSE start

\* a narrower whose upper clamp names the wrong end of the declaration
ClampEnd_ToLow(end, key) == IF end > Declared(key, 2) THEN Declared(key, 1) ELSE end

ClampEnd(end, key) == IF end > Declared(key, 2) THEN Declared(key, 2) ELSE end

\* a narrower without the guard for a step below 1
IntWindow_NoGuard(best, inc) == <<PyRound(best - inc), PyRound(best + inc)>>

IntWindow(best, inc) ==
    IF inc < Unit THEN <<best - Unit, best + Unit>>
    ELSE <<PyRound(best - inc), PyRound(best + inc)>>

\* a narrower that halves the step
FloatWindow_Half(best, inc) == <<best - inc \div 2, best + inc \div 2>>

FloatWindow(best, inc) == <<best - inc, best + inc>>

StoredIncrement(key) == global_increment_storage[key]

convert_best_val_var_pair_into_ranges(pair) ==
    [key \in DOMAIN pair[2] |->
        CASE types[key] = "constant" -> pair[2][key]
          [] types[key] = "bool" -> <<TRUE, FALSE>>
          [] types[key] = "int" ->
                IF check_all_ints THEN <<Declared(key, 1), Declared(key, 2)>>
                ELSE LET w == IntWindow(pair[2][key], StoredIncrement(key))
                     IN  <<ClampStart(w[1], key), ClampEnd(w[2], key)>>
          [] types[key] = "float" ->
                LET w == FloatWindow(pair[2][key], StoredIncrement(key))
                IN  <<ClampStart(w[1], key), ClampEnd(w[2], key)>>]

----------------------------------------------------------------------------
(* crunch *)

\* the effect of one call of _generate_test_points on the state
GenerateFrom(ranges) ==
    LET g == generate_test_points(ranges)
    IN  /\ var_range' = ranges
        /\ option_dic' = g.option_dic
        /\ global_increment_storage' = g.increments
        /\ points' = g.variable_list
        /\ work' = [work EXCEPT ![3] = @ + 1]

\* points = self._generate_test_points(self.variables)
CrunchStart ==
    /\ pc = "constructed"
    /\ GenerateFrom(DeclaredRanges)
    /\ x' = 0
    /\ pc' = "loop"
    /\ UNCHANGED <<config, types, best_val_var_pair, returned, estimate, calls, seen>>

\* ret, vars = self._find_ideal_choice(points)
FindIdealChoice ==
    /\ pc = "loop"
    /\ x < iterations
    /\ LET found == find_ideal_choice(points)
       IN  /\ best_val_var_pair' = found.best
           /\ calls' = found.calls
    /\ seen' = seen \cup {Apply(calls'[i]) : i \in DOMAIN calls'}
    /\ pc' = IF best_val_var_pair' = <<>> THEN "raised" ELSE "check"
    /\ work' = [work EXCEPT ![1] = @ + 1]
    /\ UNCHANGED <<config, types, global_increment_storage, var_range, option_dic,
                   points, x, returned, estimate>>

\* an early-stop test that compares ret with the goal string, never equal
TargetReached_StringCompare ==
    /\ goal.kind \notin {"max", "min"}
    /\ FALSE

\* self.goal not in ['max', 'min'] and ret == float(self.goal)
TargetReached ==
    /\ goal.kind \notin {"max", "min"}
    /\ best_val_var_pair[1] = float_of_goal

\* return ret, vars  (inside the loop)
EarlyReturn ==
    /\ pc = "check"
    /\ TargetReached
    /\ returned' = best_val_var_pair
    /\ pc' = "done"
    /\ UNCHANGED <<config, types, global_increment_storage, var_range, option_dic,
                   points, best_val_var_pair, x, estimate, calls, seen, work>>

\* var_range = self._convert_best_val_var_pair_into_ranges((ret, vars))
Narrow ==
    /\ pc = "check"
    /\ ~TargetReached
    /\ var_range' = convert_best_val_var_pair_into_ranges(best_val_var_pair)
    /\ work' = [work EXCEPT ![2] = @ + 1]
    /\ pc' = "generate"
    /\ UNCHANGED <<config, types, global_increment_storage, option_dic, points,
                   best_val_var_pair, x, returned, estimate, calls, seen>>

\* points = self._generate_test_points(var_range), and the loop's next x
Generate ==
    /\ pc = "generate"
    /\ GenerateFrom(var_range)
    /\ x' = x + 1
    /\ pc' = "loop"
    /\ UNCHANGED <<config, types, best_val_var_pair, returned, estimate, calls, seen>>

\* return ret, vars  (after the loop)
Return ==
    /\ pc = "loop"
    /\ x = iterations
    /\ returned' = best_val_var_pair
    /\ pc' = "done"
    /\ UNCHANGED <<config, types, global_increment_storage, var_range, option_dic,
                   points, best_val_var_pair, x, estimate, calls, seen, work>>

----------------------------------------------------------------------------
(* estimate_crunch_time *)

Count(kind) == Cardinality({key \in DOMAIN types : types[key] = kind})

\* the factor the boolean variables contribute
BoolFactor(num_bool) == 2 * num_bool

\* the number handed to _pretty_print_estimated_time_in_seconds
EstimatedSeconds(tos) ==
    LET num_bool == Count("bool")
        num_int == Count("int")
        num_float == Count("float")
    IN  IF num_bool # 0
        THEN tos * Pow(points_per_split, num_int + num_float) * BoolFactor(num_bool) * iterations
        ELSE tos * Pow(points_per_split, num_int + num_float) * iterations

EstimateCrunchTime ==
    /\ pc = "constructed"
    /\ \E time_of_one_sim_in_seconds \in 1 .. MaxUnitCost :
        estimate' = IF ~check_all_ints
                    THEN [supported |-> TRUE,
                          tos |-> time_of_one_sim_in_seconds,
                          seconds |-> EstimatedSeconds(time_of_one_sim_in_seconds)]
                    ELSE [supported |-> FALSE,
                          tos |-> time_of_one_sim_in_seconds,
                          seconds |-> 0]
    /\ pc' = "estimated"
    /\ UNCHANGED <<config, types, search>>

----------------------------------------------------------------------------
(* The searches of the model *)

Ends == {-3, 0, 2, 7, 10}

Spaces ==
    {<<FloatDecl(lo, hi)>> : <<lo, hi>> \in {e \in Ends \X Ends : e[1] <= e[2]}}
    \cup {<<IntDecl(lo, hi)>> : <<lo, hi>> \in {e \in Ends \X Ends : e[1] <= e[2]}}
    \cup {<<FloatDecl(0, 3), IntDecl(0, 3), ConstDecl(2), BoolDecl>>,
          <<IntDecl(-3, 0), BoolDecl, FloatDecl(2, 7)>>,
          <<ConstDecl(2), IntDecl(0, 7)>>}

Goals ==
    {[kind |-> "max", t |-> 0], [kind |-> "min", t |-> 0]}
    \cup {[kind |-> "target", t |-> t] : t \in {-4, 0, 5}}

Functions ==
    {[kind |-> "quad", p |-> p, tab |-> <<>>] : p \in {2, 7}}
    \cup {[kind |-> "lin", p |-> 0, tab |-> <<>>]}

Fresh ==
    /\ types = <<>>
    /\ global_increment_storage = <<>>
    /\ pc = "new"
    /\ var_range = <<>>
    /\ option_dic = <<>>
    /\ points = <<>>
    /\ best_val_var_pair = <<>>
    /\ x = 0
    /\ returned = <<>>
    /\ estimate = <<>>
    /\ calls = <<>>
    /\ seen = {}
    /\ work = <<0, 0, 0>>

Init ==
    /\ variables \in Spaces
    /\ function \in Functions
    /\ points_per_split \in 3 .. MaxPointsPerSplit
    /\ iterations \in 1 .. MaxIterations
    /\ goal \in Goals
    /\ check_all_ints \in BOOLEAN
    /\ Fresh

Next ==
    \/ Construct
    \/ CrunchStart
    \/ FindIdealChoice
    \/ EarlyReturn
    \/ Narrow
    \/ Generate
    \/ Return

Spec == Init /\ [][Next]_vars

\* no division of the model truncates
DivisionsAreExact ==
    pc \in {"loop", "check", "done"} =>
        \A key \in DOMAIN types :
            (types[key] = "float" \/ (types[key] = "int" /\ ~check_all_ints)) =>
                global_increment_storage[key] * (points_per_split - 1)
                    = var_range[key][2] - var_range[key][1]

----------------------------------------------------------------------------
(* One selection over an arbitrary batch: a single integer variable 1..n,  *)
(* every integer checked, and any table of scores over it.                 *)

Scores == 0 .. 2

SelectInit ==
    /\ \E n \in 1 .. MaxBatch :
        /\ variables = <<IntDecl(1, n)>>
        /\ function \in {[kind |-> "table", p |-> 0, tab |-> tab] : tab \in [1 .. n -> Scores]}
    /\ points_per_split = 3
    /\ iterations = 1
    /\ goal \in {[kind |-> "max", t |-> 0], [kind |-> "min", t |-> 0],
                 [kind |-> "target", t |-> 1], [kind |-> "target", t |-> 3]}
    /\ check_all_ints = TRUE
    /\ Fresh

SpecSelect == SelectInit /\ [][Next]_vars

----------------------------------------------------------------------------
(* Construction over every shape of declaration *)

Values ==
    {Val("int", 0), Val("int", 1), Val("float", 0), Val("float", 1),
     Val("bool", 1), Val("bool", 0), Val("str", 0)}

Declarations ==
    {[shape |-> "scalar", elems |-> <<v>>] : v \in Values}
    \cup {[shape |-> sh, elems |-> e] :
            sh \in {"list", "tuple", "dict"},
            e \in {<<>>} \cup {<<v>> : v \in Values} \cup (Values \X Values)
                  \cup {<<v[1], v[2], v[1]>> : v \in Values \X Values}}

ValidateInit ==
    /\ variables \in {<<>>} \cup {<<d>> : d \in Declarations}
                     \cup {<<FloatDecl(0, 1), d>> : d \in Declarations}
    /\ function = [kind |-> "lin", p |-> 0, tab |-> <<>>]
    /\ points_per_split \in 2 .. 3
    /\ iterations \in 0 .. 1
    /\ goal = [kind |-> "max", t |-> 0]
    /\ check_all_ints = FALSE
    /\ Fresh

NextValidate == Construct

SpecValidate == ValidateInit /\ [][NextValidate]_vars

----------------------------------------------------------------------------
(* Time estimates over every mix of variable kinds *)

Kinds == {FloatDecl(0, 1), IntDecl(0, 1), BoolDecl, ConstDecl(1)}

RECURSIVE SeqsUpTo(_, _)
SeqsUpTo(S, n) ==
    IF n = 0 THEN {<<>>}
    ELSE LET shorter == SeqsUpTo(S, n - 1)
         IN  shorter \cup {Append(s, e) : s \in shorter, e \in S}

EstimateInit ==
    /\ variables \in SeqsUpTo(Kinds, MaxVars) \ {<<>>}
    /\ function = [kind |-> "lin", p |-> 0, tab |-> <<>>]
    /\ points_per_split \in 3 .. 4
    /\ iterations \in 1 .. 2
    /\ goal = [kind |-> "max", t |-> 0]
    /\ check_all_ints \in BOOLEAN
    /\ Fresh

NextEstimate == Construct \/ EstimateCrunchTime

SpecEstimate == EstimateInit /\ [][NextEstimate]_vars

----------------------------------------------------------------------------
(* Properties *)

\* how far a score is from the goal: the smaller, the better
Dist(score) ==
    IF goal.kind = "max" THEN 0 - score
    ELSE IF goal.kind = "min" THEN score
    ELSE Abs(float_of_goal - score)

\* the keys whose range the narrower may move
Ranged(key) == types[key] \in {"float", "int"}

\* C1: every range the narrower has produced for a Float or an Integer
\* variable, in any iteration, lies within the bounds declared at construction:
\* new_lo >= original_lo and new_hi <= original_hi.
C1_NarrowedWithinDeclared ==
    work[2] >= 1 =>
        \A key \in DOMAIN types :
            Ranged(key) =>
                /\ var_range[key][1] >= Declared(key, 1)
                /\ var_range[key][2] <= Declared(key, 2)

\* C1 witness: the second narrowing has just run, and for a Float variable the
\* window best - step fell below the declared low, so the clamp acted, while
\* the range is no longer the declared one.
C1_Witness ==
    /\ pc = "generate"
    /\ work[2] >= 2
    /\ \E key \in DOMAIN types :
        /\ types[key] = "float"
        /\ best_val_var_pair[2][key] - global_increment_storage[key] < Declared(key, 1)
        /\ var_range[key] # <<Declared(key, 1), Declared(key, 2)>>

\* C2 as stated: the returned pair is at least as good as every assignment
\* evaluated in any iteration of the search.
C2_BestOfWholeSearch ==
    pc = "done" => \A s \in seen : Dist(returned[1]) <= Dist(s)

\* C2 amended: the returned pair is the best pair of the last batch evaluated:
\* it is an assignment of that batch with its own score, and that score is at
\* least as good as the score of every assignment of that batch.
C2_BestOfLastBatch ==
    pc = "done" =>
        /\ \E i \in DOMAIN calls : returned = <<Apply(calls[i]), calls[i]>>
        /\ \A i \in DOMAIN calls : Dist(returned[1]) <= Dist(Apply(calls[i]))

\* C2 witness: a search of two or more iterations has returned, and an earlier
\* iteration had evaluated an assignment strictly better than the returned one.
C2_Witness ==
    /\ pc = "done"
    /\ work[1] >= 2
    /\ \E s \in seen : Dist(s) < Dist(returned[1])

\* the batch just evaluated holds an assignment that scores the target exactly
Hit ==
    /\ goal.kind = "target"
    /\ \E i \in DOMAIN calls : Apply(calls[i]) = float_of_goal

\* C3: with a target goal, once a batch holds an assignment scoring the target
\* exactly, the selection picks such a score and crunch returns it at that
\* iteration: iteration x+1 has made x+1 selections, x narrowings and x+1
\* generations, and nothing runs after it.
C3_StopsAtExactMatch ==
    Hit =>
        /\ pc \in {"check", "done"}
        /\ best_val_var_pair[1] = float_of_goal
        /\ pc = "done" =>
            /\ returned = best_val_var_pair
            /\ work = <<x + 1, x, x + 1>>

\* C3 witness: crunch returned on an exact match in its second iteration with
\* a third one still to run.
C3_Witness ==
    /\ pc = "done"
    /\ Hit
    /\ x = 1
    /\ iterations = 3

\* C4: one selection evaluates the function once per assignment, in batch
\* order, and returns the first assignment of the batch whose score is optimal
\* under the goal: every assignment scores no better, every earlier one
\* strictly worse.
C4_FirstOptimalInBatchOrder ==
    pc = "check" =>
        /\ calls = points
        /\ \E k \in DOMAIN points :
            /\ best_val_var_pair = <<Apply(points[k]), points[k]>>
            /\ \A j \in DOMAIN points : Dist(Apply(points[k])) <= Dist(Apply(points[j]))
            /\ \A j \in 1 .. k - 1 : Dist(Apply(points[j])) > Dist(Apply(points[k]))

\* C4 witness: under Minimize the selection kept an assignment that is not the
\* first of the batch although a later one has the same score.
C4_Witness ==
    /\ pc = "check"
    /\ goal.kind = "min"
    /\ \E k \in DOMAIN points, j \in DOMAIN points :
        /\ 1 < k
        /\ k < j
        /\ best_val_var_pair[2] = points[k]
        /\ Apply(points[j]) = best_val_var_pair[1]

\* the end-to-end example: x in [0, 10], points_per_split 3, iterations 2,
\* Maximize, f(x) = -(x-7)^2
Example ==
    /\ variables = <<FloatDecl(0, 10)>>
    /\ points_per_split = 3
    /\ iterations = 2
    /\ goal.kind = "max"
    /\ function = [kind |-> "quad", p |-> 7, tab |-> <<>>]

\* C5 as stated: iteration 1 samples {0, 5, 10} and selects x = 5 with score
\* -4, the narrowed range is [0, 10], and the returned assignment is strictly
\* closer to 7 than x = 5.
C5_SecondIterationCloser ==
    Example =>
        /\ (pc = "check" /\ x = 0) =>
            /\ calls = << <<0>>, <<5 * Unit>>, <<10 * Unit>> >>
            /\ best_val_var_pair = <<(0 - 4) * Unit * Unit, <<5 * Unit>>>>
        /\ (pc = "generate" /\ x = 0) => var_range = << <<0, 10 * Unit>> >>
        /\ pc = "done" => Abs(returned[2][1] - 7 * Unit) < Abs(5 * Unit - 7 * Unit)

\* C5 amended: iteration 1 samples {0, 5, 10} and selects x = 5 with score -4,
\* the narrowed range is [0, 10], iteration 2 samples {0, 5, 10} again, and the
\* returned pair is again x = 5 with score -4.
C5_SecondIterationSame ==
    Example =>
        /\ (pc = "check" /\ x = 0) =>
            /\ calls = << <<0>>, <<5 * Unit>>, <<10 * Unit>> >>
            /\ best_val_var_pair = <<(0 - 4) * Unit * Unit, <<5 * Unit>>>>
        /\ (pc = "generate" /\ x = 0) => var_range = << <<0, 10 * Unit>> >>
        /\ (pc = "check" /\ x = 1) => calls = << <<0>>, <<5 * Unit>>, <<10 * Unit>> >>
        /\ pc = "done" => returned = <<(0 - 4) * Unit * Unit, <<5 * Unit>>>>

\* C5 witness: the example search has returned after its two iterations.
C5_Witness ==
    /\ Example
    /\ pc = "done"
    /\ work = <<2, 2, 3>>

\* the rule of section 4.1 for one declaration
DeclarationIsRecognized(d) ==
    \/ d.shape = "scalar" /\ d.elems[1].ty \in {"int", "float"}
    \/ /\ d.shape = "list"
       /\ Len(d.elems) = 2
       /\ \A i \in 1 .. 2 : d.elems[i].ty \in {"int", "float"}
    \/ /\ d.shape = "tuple"
       /\ Len(d.elems) = 2
       /\ \/ \A i \in 1 .. 2 : d.elems[i].ty = "int"
          \/ /\ \A i \in 1 .. 2 : d.elems[i].ty = "bool"
             /\ d.elems[1].v # d.elems[2].v

\* C6: construction succeeds exactly when every declaration is a Constant, a
\* two-number list, a two-int tuple or a tuple of True and False (with
\* points_per_split >= 3, iterations >= 1 and a non-empty search space), and
\* fails otherwise: (True, True) and (False, False) are rejected.
C6_OnlyTheFourShapesConstruct ==
    pc \in {"constructed", "raised"} =>
        (pc = "constructed" <=>
            /\ points_per_split >= 3
            /\ iterations >= 1
            /\ variables # <<>>
            /\ \A key \in DOMAIN variables : DeclarationIsRecognized(variables[key]))

\* C7: without check_all_ints the seconds handed to the formatter are
\* points_per_split^(#float + #int) * 2^(#bool) * iterations * unit_cost;
\* with check_all_ints no estimate is produced.
C7_EstimateIsTheProduct ==
    pc = "estimated" =>
        IF check_all_ints THEN ~estimate.supported
        ELSE /\ estimate.supported
             /\ estimate.seconds =
                    Pow(points_per_split, Count("float") + Count("int"))
                        * Pow(2, Count("bool")) * iterations * estimate.tos

\* the multiple of Unit nearest to v, a tie going to the even integer
NearestInt(v) ==
    CHOOSE n \in {(v \div Unit) * Unit, (v \div Unit + 1) * Unit} :
        /\ 2 * Abs(v - n) <= Unit
        /\ 2 * Abs(v - n) = Unit => (n \div Unit) % 2 = 0

\* C8: for a sampled Integer variable the narrowed range is built from the
\* step of the generation call that produced the batch, (high - low) /
\* (points_per_split - 1) of the range that call sampled: (best-1, best+1) if
\* the step is below 1, else (round(best-step), round(best+step)), the low end
\* raised to the declared low and the high end lowered to the declared high.
C8_IntegerWindow ==
    pc = "generate" =>
        \A key \in DOMAIN types :
            (types[key] = "int" /\ ~check_all_ints) =>
                LET best == best_val_var_pair[2][key]
                    step == global_increment_storage[key]
                    sampled == option_dic[key]
                    raw == IF step < Unit THEN <<best - Unit, best + Unit>>
                           ELSE <<NearestInt(best - step), NearestInt(best + step)>>
                IN  /\ step * (points_per_split - 1) = sampled[Len(sampled)] - sampled[1]
                    /\ var_range[key] =
                        <<IF raw[1] < Declared(key, 1) THEN Declared(key, 1) ELSE raw[1],
                          IF raw[2] > Declared(key, 2) THEN Declared(key, 2) ELSE raw[2]>>

\* C8 witness: a narrowing of a sampled Integer variable with a step that is
\* above 1 and not whole, whose rounded window passed the declared high and
\* was lowered to it, the low end having moved up.
C8_Witness ==
    /\ pc = "generate"
    /\ ~check_all_ints
    /\ \E key \in DOMAIN types :
        /\ types[key] = "int"
        /\ global_increment_storage[key] > Unit
        /\ global_increment_storage[key] % Unit # 0
        /\ NearestInt(best_val_var_pair[2][key] + global_increment_storage[key])
              > Declared(key, 2)
        /\ var_range[key][1] > Declared(key, 1)

\* C9: whatever was selected, a Constant keeps its declared value and the
\* candidate list [value], a Boolean keeps both values and the candidate list
\* [True, False], an Integer under check_all_ints keeps its declared range and
\* the candidates low..high ascending, and the kinds stay those computed at
\* construction.
C9_OnlySampledRangesMove ==
    /\ pc \notin {"new", "raised"} => types = sort_keys
    /\ work[3] >= 1 =>
        \A key \in DOMAIN types :
            /\ types[key] = "constant" =>
                /\ var_range[key] = variables[key].elems[1].v * Unit
                /\ option_dic[key] = <<variables[key].elems[1].v * Unit>>
            /\ types[key] = "bool" =>
                /\ Range(var_range[key]) = {TRUE, FALSE}
                /\ option_dic[key] = <<TRUE, FALSE>>
            /\ (types[key] = "int" /\ check_all_ints) =>
                /\ var_range[key] = <<Declared(key, 1), Declared(key, 2)>>
                /\ option_dic[key] =
                        [i \in 1 .. variables[key].elems[2].v - variables[key].elems[1].v + 1 |->
                            (variables[key].elems[1].v + i - 1) * Unit]

\* C9 witness: two narrowings and the generation after them have run on a
\* space with a Constant, a Boolean and an Integer under check_all_ints whose
\* declared range holds several integers, the selected Boolean being False.
C9_Witness ==
    /\ pc = "loop"
    /\ work[2] >= 2
    /\ check_all_ints
    /\ \E c \in DOMAIN types : types[c] = "constant"
    /\ \E b \in DOMAIN types : types[b] = "bool" /\ best_val_var_pair[2][b] = FALSE
    /\ \E i \in DOMAIN types : types[i] = "int" /\ Len(option_dic[i]) > 2

C11_SampledIntegersDistinct ==
    (pc \in {"loop", "check", "done"} /\ ~check_all_ints) =>
        \A key \in DOMAIN types :
            types[key] = "int" =>
                LET cand == option_dic[key]
                    lo == var_range[key][1]
                    hi == var_range[key][2]
                IN  /\ cand[1] = lo
                    /\ cand[Len(cand)] = hi
                    /\ \A i \in DOMAIN cand : lo <= cand[i] /\ cand[i] <= hi
                    /\ \A i \in DOMAIN cand : \A j \in DOMAIN cand :
                            cand[i] = cand[j] => i = j

====
